---- MODULE Spec2Model ----
\* Fraud-detection order consumer (main.kt, carried in
\* src/src/frontend/providers/Ad.provider.tsx lines 69-242): the main thread
\* (initialisation, poll loop, per-record pipeline), the retention cleanup
\* scheduler thread and the JVM shutdown hook, sharing the Order Log Store.
EXTENDS Integers, Sequences, FiniteSets, TLC

\* ---------------------------------------------------------------- bounds
MaxPolled == 3      \* records polled over the whole run
MaxBatch == 2       \* records returned by one poll
MaxNow == 2         \* last day the clock reaches
MaxFlagChanges == 1 \* times a flag is set to another value during a run

\* ------------------------------------------------------------- constants
DefaultRetentionDays == 7
DefaultIntervalHours == 24

\* ------------------------------------------------------------ environment
Unset == "<unset>"
DecimalValue == ("0" :> 0) @@ ("1" :> 1) @@ ("48" :> 48)
\* values of <<CLEANUP_RETENTION_DAYS, CLEANUP_INTERVAL_HOURS>>
CleanupEnv == {<<Unset, Unset>>, <<"abc", "48">>, <<"0", Unset>>, <<"1", "48">>}
KafkaAddrEnv == {Unset, "kafka:9092"}

\* System.getenv(name)?.toIntOrNull() ?: default
EnvIntOrDefault(s, d) ==
    IF s # Unset /\ s \in DOMAIN DecimalValue THEN DecimalValue[s] ELSE d

\* ----------------------------------------------------------- feature flags
FlagResponses ==
    {[status |-> "absent", value |-> 0], [status |-> "unreachable", value |-> 0],
     [status |-> "found", value |-> 0], [status |-> "found", value |-> 50],
     [status |-> "found", value |-> 100]}

getFeatureFlagValue_DefaultOne(resp) ==
    IF resp.status = "found" THEN resp.value ELSE 1

\* client.getIntegerValue(ff, 0): the default is returned unless the flag resolves
getFeatureFlagValue(resp) ==
    IF resp.status = "found" THEN resp.value ELSE 0

\* the flags main reads, lines 160, 167, 168, 189 and 208
FlagNames == {"kafkaQueueProblems", "fraudDetectionEnabled", "mutateFraudOrders",
              "executeBadQueries"}
\* the flag service holds no particular value: any response at every read
AnyAnswer == [status |-> "any", value |-> 0]
AnyValues == [ff \in FlagNames |-> AnyAnswer]
\* the values an operator sets a flag to
FlagSettings == {[status |-> "found", value |-> 0], [status |-> "found", value |-> 50]}

\* the flag service resolved the flag, to a value above 0
ResolvedOn(resp) == resp.status = "found" /\ resp.value > 0

\* the value of a percentage local outside its scope
NotRead == -1

\* ---------------------------------------------------------------- records
OrderIds == {"o1"}
Garbage == [valid |-> FALSE, orderId |-> ""]
Payloads == {[valid |-> TRUE, orderId |-> id] : id \in OrderIds} \cup {Garbage}
NoOrder == [orderId |-> "", mutated |-> FALSE]

\* OrderResult.parseFrom(record.value()): throws on bytes that are no OrderResult
ParseOk(p) == p.valid
parseFrom(p) == [orderId |-> p.orderId, mutated |-> FALSE]

\* orderMutator.mutateOrder(orders, pct): a copy corrupted with probability pct
\* percent (roll is the random draw in 0..99); the orderId is preserved
Rolls == {0, 50, 99}
mutateOrder(o, pct, roll) ==
    IF roll < pct THEN [o EXCEPT !.mutated = TRUE] ELSE o

\* ---------------------------------------------------------- fraud analytics
\* the scoring bands of fraudAnalytics.analyzeOrder: the alert threshold and the
\* lower ends of the HIGH and CRITICAL bands
MediumScore == 50
HighScore == 70
CriticalScore == 90
MaxScore == 100     \* largest total risk score drawn
NoScore == -1
Severities == {"MEDIUM", "HIGH", "CRITICAL"}

\* the total risk scores drawn: the ends of every band
Scores == {0, MediumScore - 1, MediumScore, HighScore - 1, HighScore,
           CriticalScore - 1, CriticalScore, MaxScore}

analyzeOrder_StrictBands(score) ==
    IF score > CriticalScore THEN "CRITICAL"
    ELSE IF score > HighScore THEN "HIGH"
    ELSE IF score > MediumScore THEN "MEDIUM"
    ELSE "null"

\* fraudAnalytics.analyzeOrder(orders), as a function of the order's total risk
\* score: the severity of the FraudAlert, "null" below the alert threshold
analyzeOrder(score) ==
    IF score >= CriticalScore THEN "CRITICAL"
    ELSE IF score >= HighScore THEN "HIGH"
    ELSE IF score >= MediumScore THEN "MEDIUM"
    ELSE "null"

\* =========================================================== mobile app
\* src/react-native-app/utils/UserAttributes.ts: the session kept in
\* AsyncStorage and the user generated from its id.
\* A 32-bit value is a pair <<high, low>> of 16-bit halves.
Half == 65536
LcgA == 1664525
LcgC == 1013904223
Word(n) == <<n \div Half, n % Half>>

\* (w * k + d) mod 2^32, for a multiplier k below 2^31 whose low half is below 2^15
MulAddMod32(w, k, d) ==
    LET low == w[2] * k[2] + d[2]
        high == w[1] * k[2] + w[2] * k[1] + d[1] + (low \div Half)
    IN  <<high % Half, low % Half>>

\* Math.abs(hash) of the int32 that hash & hash leaves
AbsInt32(w) ==
    IF w[1] < Half \div 2 THEN w
    ELSE IF w[2] = 0 THEN <<Half - w[1], 0>>
    ELSE <<Half - 1 - w[1], Half - w[2]>>

\* the loop of simpleHash, from the i-th char code on:
\* hash = ((hash << 5) - hash) + char, kept in 32 bits by hash & hash
RECURSIVE hashLoop(_, _, _)
hashLoop(str, i, hash) ==
    IF i > Len(str) \/ Len(hash) # 2 THEN hash
    ELSE hashLoop(str, i + 1, MulAddMod32(hash, <<0, 31>>, <<0, str[i]>>))

\* simpleHash(str), str given by its char codes
simpleHash(str) == AbsInt32(hashLoop(str, 1, <<0, 0>>))

\* SeededRandom.random(): the next seed (a * seed + c) % m; the value returned
\* is that seed divided by m = 2^32
random(seed) == MulAddMod32(seed, Word(LcgA), Word(LcgC))

\* seed / m < pct / 100
Below(seed, pct) == seed[1] * 100 + (seed[2] * 100) \div Half < pct * Half

\* SeededRandom.randomInt(min, max) = Math.floor(random() * (max - min + 1)) + min,
\* seed being the seed random() left
randomInt(seed, min, max) ==
    (seed[1] * (max - min + 1) + (seed[2] * (max - min + 1)) \div Half) \div Half + min

adminIDs == <<34, 37, 41>>
AdminPercent == 8
MemberPercent == 50
MemberMinId == 1000
MemberMaxId == 6000
GuestId == 99999

randomUser_AdminBelowHalf(sessionID) ==
    LET r == random(simpleHash(sessionID))
    IN  IF Below(r, MemberPercent)
        THEN [id |-> adminIDs[randomInt(random(r), 0, Len(adminIDs) - 1) + 1],
              role |-> "Admin"]
        ELSE [id |-> GuestId, role |-> "Guest"]

\* randomUser(sessionID); id is the number whose decimal string the user carries
randomUser(sessionID) ==
    LET r == random(simpleHash(sessionID))
    IN  IF Below(r, AdminPercent)
        THEN [id |-> adminIDs[randomInt(random(r), 0, Len(adminIDs) - 1) + 1],
              role |-> "Admin"]
        ELSE IF Below(r, MemberPercent)
        THEN [id |-> randomInt(random(r), MemberMinId, MemberMaxId), role |-> "Member"]
        ELSE [id |-> GuestId, role |-> "Guest"]

\* values generateUUID can return ('xxxxxxxx-xxxx-4xxx-yxxx-xxxxxxxxxxxx' with
\* random hex digits), as char codes: ids whose first draw is the lowest and
\* the highest an Admin, a Member and a Guest can have, then ids whose second
\* draw is at the ends of the Member range and of the three Admin indices
Uuids ==
    <<
       \* "3f2a91c4-7b1e-4d02-9a6c-0002e6bf5550"
       <<51, 102, 50, 97, 57, 49, 99, 52, 45, 55, 98, 49, 101, 45, 52, 100, 48, 50,
         45, 57, 97, 54, 99, 45, 48, 48, 48, 50, 101, 54, 98, 102, 53, 53, 53, 48>>,
       \* "3f2a91c4-7b1e-4d02-9a6c-000149b5c6f3"
       <<51, 102, 50, 97, 57, 49, 99, 52, 45, 55, 98, 49, 101, 45, 52, 100, 48, 50,
         45, 57, 97, 54, 99, 45, 48, 48, 48, 49, 52, 57, 98, 53, 99, 54, 102, 51>>,
       \* "3f2a91c4-7b1e-4d02-9a6c-00005cb2c39e"
       <<51, 102, 50, 97, 57, 49, 99, 52, 45, 55, 98, 49, 101, 45, 52, 100, 48, 50,
         45, 57, 97, 54, 99, 45, 48, 48, 48, 48, 53, 99, 98, 50, 99, 51, 57, 101>>,
       \* "3f2a91c4-7b1e-4d02-9a6c-00019f0ae5a9"
       <<51, 102, 50, 97, 57, 49, 99, 52, 45, 55, 98, 49, 101, 45, 52, 100, 48, 50,
         45, 57, 97, 54, 99, 45, 48, 48, 48, 49, 57, 102, 48, 97, 101, 53, 97, 57>>,
       \* "3f2a91c4-7b1e-4d02-9a6c-00009160121f"
       <<51, 102, 50, 97, 57, 49, 99, 52, 45, 55, 98, 49, 101, 45, 52, 100, 48, 50,
         45, 57, 97, 54, 99, 45, 48, 48, 48, 48, 57, 49, 54, 48, 49, 50, 49, 102>>,
       \* "3f2a91c4-7b1e-4d02-9a6c-00010e1ebf8a"
       <<51, 102, 50, 97, 57, 49, 99, 52, 45, 55, 98, 49, 101, 45, 52, 100, 48, 50,
         45, 57, 97, 54, 99, 45, 48, 48, 48, 49, 48, 101, 49, 101, 98, 102, 56, 97>>,
       \* "3f2a91c4-7b1e-4d02-9a6c-00008d6a954a"
       <<51, 102, 50, 97, 57, 49, 99, 52, 45, 55, 98, 49, 101, 45, 52, 100, 48, 50,
         45, 57, 97, 54, 99, 45, 48, 48, 48, 48, 56, 100, 54, 97, 57, 53, 52, 97>>,
       \* "3f2a91c4-7b1e-4d02-9a6c-0001cef0b6df"
       <<51, 102, 50, 97, 57, 49, 99, 52, 45, 55, 98, 49, 101, 45, 52, 100, 48, 50,
         45, 57, 97, 54, 99, 45, 48, 48, 48, 49, 99, 101, 102, 48, 98, 54, 100, 102>>,
       \* "3f2a91c4-7b1e-4d02-9a6c-0000bf427dde"
       <<51, 102, 50, 97, 57, 49, 99, 52, 45, 55, 98, 49, 101, 45, 52, 100, 48, 50,
         45, 57, 97, 54, 99, 45, 48, 48, 48, 48, 98, 102, 52, 50, 55, 100, 100, 101>>,
       \* "3f2a91c4-7b1e-4d02-9a6c-000049434ea7"
       <<51, 102, 50, 97, 57, 49, 99, 52, 45, 55, 98, 49, 101, 45, 52, 100, 48, 50,
         45, 57, 97, 54, 99, 45, 48, 48, 48, 48, 52, 57, 52, 51, 52, 101, 97, 55>>,
       \* "3f2a91c4-7b1e-4d02-9a6c-0000ebb09613"
       <<51, 102, 50, 97, 57, 49, 99, 52, 45, 55, 98, 49, 101, 45, 52, 100, 48, 50,
         45, 57, 97, 54, 99, 45, 48, 48, 48, 48, 101, 98, 98, 48, 57, 54, 49, 51>>,
       \* "3f2a91c4-7b1e-4d02-9a6c-0000ac23ae7a"
       <<51, 102, 50, 97, 57, 49, 99, 52, 45, 55, 98, 49, 101, 45, 52, 100, 48, 50,
         45, 57, 97, 54, 99, 45, 48, 48, 48, 48, 97, 99, 50, 51, 97, 101, 55, 97>>,
       \* "3f2a91c4-7b1e-4d02-9a6c-0001f07b5d05"
       <<51, 102, 50, 97, 57, 49, 99, 52, 45, 55, 98, 49, 101, 45, 52, 100, 48, 50,
         45, 57, 97, 54, 99, 45, 48, 48, 48, 49, 102, 48, 55, 98, 53, 100, 48, 53>>
    >>

\* Session timeout: 30 minutes
SESSION_TIMEOUT == 30 * 60 * 1000
TickMinutes == 15   \* the clock of the device advances in steps of 15 minutes
TickMs == TickMinutes * 60 * 1000
MaxTicks == 3       \* last step the clock of the device reaches
MaxUuids == 3       \* values generateUUID returns in a run

\* AsyncStorage.getItem(SESSION_KEY) when no item is stored: null
NoItem == <<>>
NoId == <<>>
NoCall == -1
NoAttrs == [id |-> 0, role |-> "none", deployment |-> "none"]

\* JSON.stringify(session) and JSON.parse(sessionStr): the item lists the
\* fields of the Session in the order they were written
stringify(session) == <<session.userId, session.currencyCode, session.timestamp>>
parse(sessionStr) ==
    [userId |-> sessionStr[1], currencyCode |-> sessionStr[2], timestamp |-> sessionStr[3]]

\* src/frontend/pages/cart/index.tsx
MaxItems == 2       \* items the cart holds at most
MaxMounts == 2      \* visits of the cart page in the browser session

\* src/build-saucelabs.sh
ENV_FILE == ".env"
APP_JSON == "app.json"
PACKAGE_JSON == "package.json"
IOS_PLIST == "Info.plist"
ANDROID_GRADLE == "build.gradle"
ConfigFiles == {ENV_FILE, APP_JSON, PACKAGE_JSON, IOS_PLIST, ANDROID_GRADLE}
RequiredFiles == {ENV_FILE, APP_JSON, PACKAGE_JSON}
\* the files present when the script starts
FileSets ==
    {RequiredFiles \cup optional : optional \in SUBSET {IOS_PLIST, ANDROID_GRADLE}}
        \cup {{ENV_FILE, PACKAGE_JSON, IOS_PLIST, ANDROID_GRADLE}}
OsTypes == {"darwin", "linux"}
\* the files whose version pattern the update does not match
StaleSets == {{}, {APP_JSON}, {IOS_PLIST}}
\* exit statuses of the build tools: success and a failure
BuildStatuses == {0, 65}
NotExited == -1
\* set -e, line 7: a simple command that fails ends the script at once
ErrExit == TRUE

\* src/react-native-app/utils/RegionSettings.ts
DEFAULT_REGION == "EU"
\* the item under REGION_KEY: none, the two regions, anything else
RegionItems == {"", "EU", "US", "XX"}
\* process.env: a variable is unset ("") or set
Tokens == {"", "token"}
AppNames == {"", "shop"}
Envs == [tokenEU : Tokens, tokenUS : Tokens, appName : AppNames]

\* getRegion: the stored region, the default when there is none or the read fails
getRegion(item, fails) ==
    IF fails THEN DEFAULT_REGION ELSE IF item = "" THEN DEFAULT_REGION ELSE item

\* getRegionConfig
getRegionConfig(region, e) ==
    IF region = "EU"
    THEN [realm |-> "eu0", rumToken |-> e.tokenEU]
    ELSE [realm |-> "us1", rumToken |-> e.tokenUS]

\* getAppName
getAppName(e) == IF e.appName = "" THEN "astronomy-shop-mobile" ELSE e.appName

NoConfig == [realm |-> "", rumToken |-> ""]

\* src/react-native-app/utils/TelemetryUtils.ts
MaxCalls == 2       \* calls of executeWithWorkflowSpan in the run
Calls == 1..MaxCalls
NoError == "none"
\* what fn rejects with: two Error objects, or undefined as in Promise.reject()
Undefined == "undefined"
Rejections == {"e1", "e2", Undefined}
\* what an onResult callback that fails throws
OnResultError == "onResultError"
\* reading a property of undefined
TypeError == "TypeError"
\* a call of executeWithWorkflowSpan: its position, its span, whether it was
\* given onResult, the calls made on the span in order, the forceFlush calls,
\* what fn rejected with, and how the call ended for its caller
NotCalled ==
    [pc |-> "idle", span |-> "null", onResult |-> FALSE, log |-> <<>>, flushes |-> 0,
     thrown |-> NoError, outcome |-> "pending", error |-> NoError]

VARIABLES
    flagd,                \* the flag service: "up" or "down"
    flagdValues,          \* what the flag service holds for each flag
    flagChanges,          \* times a flag was set to another value
    pc,                   \* position of the main thread
    exitCode,             \* status passed to exitProcess, -1 while running
    db,                   \* DatabaseConfig: "uninit", "open", "closed"
    bootstrapServers,     \* main's local, line 119
    cleanupRetentionDays, \* main's local, line 137
    cleanupIntervalHours, \* main's local, line 138
    totalCount,           \* line 144
    fraudAlertCount,      \* line 145
    batch,                \* number of records of the current poll not yet folded
    acc,                  \* fold accumulator
    orders,               \* the decoded (maybe mutated) order of the current record
    saved,                \* outcome of saveOrder for the current record
    alert,                \* outcome of analyzeOrder for the current record
    riskScore,            \* total risk score analyzeOrder computed for the record
    readOn,               \* history: a lookup for the current record resolved above 0
    mutationPercentage,   \* main's local, line 168
    badQueryPercentage,   \* main's local, line 208
    executed,             \* main's local, line 211
    store,                \* Order Log Store: sequence of OrderLogEntry
    cleanupState,         \* "Stopped", "Waiting", "Deleting"
    retentionDays,        \* the scheduler's retention
    intervalHours,        \* the scheduler's period
    lastFire,             \* day of the scheduler's start or last fire
    lastCycle,            \* outcome of the last cleanup cycle
    hook,                 \* shutdown hook: "unregistered", "registered", "running", "done"
    hookIdx,              \* next statement of the running hook
    now,                  \* the clock, in days
    polled,               \* records returned by poll so far
    savedOk,              \* inserts that reported success: [msg, ts, during]
    storage,              \* AsyncStorage: the item under SESSION_KEY
    clock,                \* Date.now() on the device, in milliseconds
    gsPc,                 \* position of the call of getSessionId in progress
    gsNow,                \* getSessionId's local now
    newUserId,            \* getSessionId's local newUserId
    caller,               \* the exported function that was called
    returned,             \* the id the last call of getSessionId returned
    gsOutcome,            \* how that call ended: "stored", "created", "fallback"
    lastCall,             \* the time that call was made at
    attrs,                \* the last result of getSplunkGlobalAttributes
    attrsSession,         \* the session id it was generated from
    attrsStored,          \* the item in AsyncStorage when it was returned
    uuidIdx,              \* where in Uuids the values generateUUID returns start
    generated,            \* number of values generateUUID has returned
    afterReset,           \* resetSession removed the item and no call was made since
    removedId,            \* the session id of the item resetSession removed last
    workflows,            \* the calls of executeWithWorkflowSpan and their spans
    cartMounted,          \* the Cart page component is mounted
    cartErrorSentRef,     \* cartErrorSentRef.current of the mounted Cart component
    items,                \* items.length of the cart, kept by the cart provider
    windowTracer,         \* window.tracer is set
    effectPending,        \* the effect of Cart is scheduled to run
    cartSpans,            \* the CartPageError spans started in the browser session
    cartMounts,           \* times the Cart page was mounted in the browser session
    bsPc,                 \* position of build-saucelabs.sh
    bsExit,               \* exit status of the script, -1 while it runs
    files,                \* the configuration files: "absent", "original", "versioned"
    backups,              \* their .backup copies: "absent" or the content copied
    ostype,               \* $OSTYPE: "darwin" or "linux"
    lastStatus,           \* $? after the last build command
    failed,               \* the command or check that made the script exit
    regionItem,           \* AsyncStorage: the item under REGION_KEY, "" when there is none
    processEnv,           \* process.env: the RUM tokens and the app name, "" when unset
    rumPc,                \* position of the call of initializeSplunkRum
    regionConfig,         \* initializeSplunkRum's local regionConfig
    rumOutcome,           \* how its promise settled: "pending", "rum", "null", "rejected"
    rumCause,             \* what decided the outcome
    rum,                  \* useSplunkRum's state rum
    rumLoaded,            \* useSplunkRum's state loaded
    navigationTracking,   \* startNavigationTracking was called
    fontsLoaded,          \* RootLayout: useFonts
    tracerLoaded,         \* RootLayout: useTracer
    rendered              \* RootLayout returned the app rather than null

consumerVars == <<flagd, flagdValues, flagChanges, pc, exitCode, db, bootstrapServers, cleanupRetentionDays, cleanupIntervalHours,
          totalCount, fraudAlertCount, batch, acc, orders, saved, alert, riskScore,
          readOn, mutationPercentage, badQueryPercentage, executed, store,
          cleanupState, retentionDays, intervalHours, lastFire, lastCycle, hook,
          hookIdx, now, polled, savedOk>>
sessionVars == <<storage, clock, gsPc, gsNow, newUserId, caller, returned, gsOutcome,
                 lastCall, attrs, attrsSession, attrsStored, uuidIdx, generated, afterReset, removedId>>
mobile == <<sessionVars, workflows>>
cartVars == <<cartMounted, cartErrorSentRef, items, windowTracer, effectPending, cartSpans,
              cartMounts>>
buildVars == <<bsPc, bsExit, files, backups, ostype, lastStatus, failed>>
rumVars == <<regionItem, processEnv, rumPc, regionConfig, rumOutcome, rumCause, rum, rumLoaded,
             navigationTracking, fontsLoaded, tracerLoaded, rendered>>
others == <<cartVars, buildVars, rumVars>>
vars == <<consumerVars, mobile, others>>
\* what the threads of the consumer never write
outside == <<mobile, others, flagd, flagdValues, flagChanges>>

\* the flag service at the start of a run
FlagdHolds(values) == flagdValues = values /\ flagChanges = 0

mainLocals == <<orders, saved, alert, riskScore>>
flagLocals == <<readOn, mutationPercentage, badQueryPercentage, executed>>
mainCounters == <<totalCount, fraudAlertCount, batch, acc, polled>>
config == <<bootstrapServers, cleanupRetentionDays, cleanupIntervalHours>>
scheduler == <<cleanupState, retentionDays, intervalHours, lastFire, lastCycle>>
shutdown == <<hook, hookIdx>>

InitMain ==
    /\ pc = "initDb"
    /\ exitCode = -1
    /\ db = "uninit"
    /\ bootstrapServers = Unset
    /\ cleanupRetentionDays = 0
    /\ cleanupIntervalHours = 0
    /\ totalCount = 0
    /\ fraudAlertCount = 0
    /\ batch = 0
    /\ acc = 0
    /\ orders = NoOrder
    /\ saved = "none"
    /\ alert = "none"
    /\ riskScore = NoScore
    /\ readOn = FALSE
    /\ mutationPercentage = NotRead
    /\ badQueryPercentage = NotRead
    /\ executed = "none"
    /\ store = <<>>
    /\ cleanupState = "Stopped"
    /\ retentionDays = 0
    /\ intervalHours = 0
    /\ lastFire = 0
    /\ lastCycle = "none"
    /\ hook = "unregistered"
    /\ hookIdx = 1
    /\ now = 0
    /\ polled = 0
    /\ savedOk = {}

\* the mobile app before its first call, no session stored
InitMobile ==
    /\ storage = NoItem
    /\ generated = 0
    /\ clock = TickMs
    /\ gsPc = "idle"
    /\ gsNow = 0
    /\ newUserId = NoId
    /\ caller = "none"
    /\ returned = NoId
    /\ gsOutcome = "none"
    /\ lastCall = NoCall
    /\ attrs = NoAttrs
    /\ attrsSession = NoId
    /\ attrsStored = NoItem
    /\ afterReset = FALSE
    /\ removedId = NoId
    /\ workflows = [c \in Calls |-> NotCalled]

\* src/frontend/pages/cart/index.tsx: a browser session before the first visit
\* of the cart page, the cart empty
InitCart ==
    /\ cartMounted = FALSE
    /\ cartErrorSentRef = FALSE
    /\ items = 0
    /\ windowTracer = FALSE
    /\ effectPending = FALSE
    /\ cartSpans = <<>>
    /\ cartMounts = 0

\* src/build-saucelabs.sh before it runs, with the given files present
BuildStart(present, os) ==
    /\ bsPc = "start"
    /\ bsExit = NotExited
    /\ files = [f \in ConfigFiles |-> IF f \in present THEN "original" ELSE "absent"]
    /\ backups = [f \in ConfigFiles |-> "absent"]
    /\ ostype = os
    /\ lastStatus = 0
    /\ failed = "none"

InitBuild == BuildStart(ConfigFiles, "darwin")

\* src/react-native-app/app/_layout.tsx, hooks/useSplunkRum.ts: the app at
\* its start with the given stored region and environment
RumStart(item, e) ==
    /\ regionItem = item
    /\ processEnv = e
    /\ rumPc = "idle"
    /\ regionConfig = NoConfig
    /\ rumOutcome = "pending"
    /\ rumCause = "none"
    /\ rum = "null"
    /\ rumLoaded = FALSE
    /\ navigationTracking = FALSE
    /\ fontsLoaded = FALSE
    /\ tracerLoaded = FALSE
    /\ rendered = FALSE

InitRum == RumStart("", [tokenEU |-> "token", tokenUS |-> "token", appName |-> "shop"])

InitOthers == InitCart /\ InitBuild /\ InitRum

Init == InitMain /\ InitMobile /\ InitOthers /\ uuidIdx = 0 /\ flagd = "up" /\ FlagdHolds(AnyValues)

\* what the flag service can answer to one lookup
Responses ==
    IF flagd = "up" THEN FlagResponses ELSE {[status |-> "unreachable", value |-> 0]}

\* what client.getIntegerValue(ff, 0) can be answered at this moment
Answers(ff) ==
    IF flagd = "up" /\ flagdValues[ff] # AnyAnswer THEN {flagdValues[ff]} ELSE Responses

\* the JVM runs until exitProcess or until the shutdown hooks have finished
Alive == pc # "exited" /\ hook # "done"

\* ------------------------------------------------------------ main thread
InitDatabase_Continue ==
    /\ Alive /\ pc = "initDb"
    /\ \E ok \in BOOLEAN :
        db' = (IF ok THEN "open" ELSE db) /\ pc' = "kafkaAddr" /\ UNCHANGED exitCode
    /\ UNCHANGED <<outside, flagLocals, config, mainCounters, mainLocals, store, scheduler, shutdown,
                   now, savedOk>>

\* lines 106-113: DatabaseConfig.initialize() in try/catch, exitProcess(1) on failure
InitDatabase ==
    /\ Alive /\ pc = "initDb"
    /\ \E ok \in BOOLEAN :
        IF ok
        THEN db' = "open" /\ pc' = "kafkaAddr" /\ UNCHANGED exitCode
        ELSE db' = db /\ pc' = "exited" /\ exitCode' = 1
    /\ UNCHANGED <<outside, flagLocals, config, mainCounters, mainLocals, store, scheduler, shutdown,
                   now, savedOk>>

\* lines 119-127: KAFKA_ADDR is required; the consumer subscribes to the topic
CheckKafkaAddr ==
    /\ Alive /\ pc = "kafkaAddr"
    /\ \E addr \in KafkaAddrEnv :
        /\ bootstrapServers' = addr
        /\ IF addr = Unset
           THEN pc' = "exited" /\ exitCode' = 1
           ELSE pc' = "startCleanup" /\ UNCHANGED exitCode
    /\ UNCHANGED <<outside, flagLocals, db, cleanupRetentionDays, cleanupIntervalHours, mainCounters, mainLocals, store, scheduler,
                   shutdown, now, savedOk>>

\* databaseCleanup.startCleanupScheduler(r, i): the scheduler keeps its
\* arguments and waits for the first period to elapse
startCleanupScheduler(r, i) ==
    /\ cleanupState' = "Waiting"
    /\ retentionDays' = r
    /\ intervalHours' = i
    /\ lastFire' = now
    /\ UNCHANGED lastCycle

StartCleanup_Swapped ==
    /\ Alive /\ pc = "startCleanup"
    /\ \E env \in CleanupEnv :
        /\ cleanupRetentionDays' = EnvIntOrDefault(env[1], DefaultRetentionDays)
        /\ cleanupIntervalHours' = EnvIntOrDefault(env[2], DefaultIntervalHours)
        /\ startCleanupScheduler(cleanupIntervalHours', cleanupRetentionDays')
    /\ pc' = "addHook"
    /\ UNCHANGED <<outside, flagLocals, exitCode, db, bootstrapServers, mainCounters, mainLocals, store, shutdown, now,
                   savedOk>>

\* lines 136-142: read the configuration, start the cleanup scheduler
StartCleanup ==
    /\ Alive /\ pc = "startCleanup"
    /\ \E env \in CleanupEnv :
        /\ cleanupRetentionDays' = EnvIntOrDefault(env[1], DefaultRetentionDays)
        /\ cleanupIntervalHours' = EnvIntOrDefault(env[2], DefaultIntervalHours)
        /\ startCleanupScheduler(cleanupRetentionDays', cleanupIntervalHours')
    /\ pc' = "addHook"
    /\ UNCHANGED <<outside, flagLocals, exitCode, db, bootstrapServers, mainCounters, mainLocals, store, shutdown, now,
                   savedOk>>

\* lines 144-152: the counters, then the shutdown hook is registered
AddShutdownHook ==
    /\ Alive /\ pc = "addHook"
    /\ totalCount' = 0
    /\ fraudAlertCount' = 0
    /\ hook' = "registered"
    /\ pc' = "poll"
    /\ UNCHANGED <<outside, flagLocals, exitCode, db, config, batch, acc, polled, mainLocals, store,
                   scheduler, hookIdx, now, savedOk>>

\* lines 156-158: consumer.poll(100ms).fold(totalCount); an empty batch
\* leaves totalCount as it is and polls again
Poll ==
    /\ Alive /\ pc = "poll"
    /\ \E n \in 1..MaxBatch :
        /\ polled + n <= MaxPolled
        /\ batch' = n
        /\ polled' = polled + n
    /\ acc' = totalCount
    /\ pc' = "flagQueue"
    /\ UNCHANGED <<outside, flagLocals, exitCode, db, config, totalCount, fraudAlertCount, mainLocals,
                   store, scheduler, shutdown, now, savedOk>>

\* lines 159-162: kafkaQueueProblems > 0 puts the thread to sleep
FlagQueue ==
    /\ Alive /\ pc = "flagQueue"
    /\ \E resp \in Answers("kafkaQueueProblems") :
        /\ pc' = IF getFeatureFlagValue(resp) > 0 THEN "sleeping" ELSE "decode"
        /\ readOn' = ResolvedOn(resp)
    /\ mutationPercentage' = NotRead
    /\ badQueryPercentage' = NotRead
    /\ executed' = "none"
    /\ UNCHANGED <<outside, exitCode, db, config, mainCounters, mainLocals, store,
                   scheduler, shutdown, now, savedOk>>

\* line 162: Thread.sleep(1000) returns
Sleep ==
    /\ Alive /\ pc = "sleeping"
    /\ pc' = "decode"
    /\ UNCHANGED <<outside, flagLocals, exitCode, db, config, mainCounters, mainLocals, store,
                   scheduler, shutdown, now, savedOk>>

\* the calls of the pipeline that sit in a try block with catch (e: Exception):
\* lines 177-186, 190-204 and 210-217
TryCatchSites_NoSave == {"analyze", "badQuery"}
TryCatchSites_NoBadQuery == {"save", "analyze"}
TryCatchSites == {"save", "analyze", "badQuery"}

\* the statement the main thread executes after a step of the fold's body
NextStep_AnalyzeFirst(step) ==
    CASE step = "decode" -> "mutate"
      [] step = "mutate" -> "analyze"
      [] step = "analyze" -> "save"
      [] step = "save" -> "badQuery"
NextStep(step) ==
    CASE step = "decode" -> "mutate"
      [] step = "mutate" -> "save"
      [] step = "save" -> "analyze"
      [] step = "analyze" -> "badQuery"

\* where the main thread goes after the call at site returned or threw
AfterCall(site, threw) ==
    IF threw /\ site \notin TryCatchSites THEN "crashed" ELSE NextStep(site)

\* line 164: the payload of the record is decoded; parseFrom is outside every
\* try block, its exception leaves the fold, the while loop and main
Decode ==
    /\ Alive /\ pc = "decode"
    /\ \E value \in Payloads :
        /\ orders' = IF ParseOk(value) THEN parseFrom(value) ELSE orders
        /\ pc' = AfterCall("decode", ~ParseOk(value))
    /\ UNCHANGED <<outside, flagLocals, exitCode, db, config, mainCounters, saved, alert,
                   riskScore, store,
                   scheduler, shutdown, now, savedOk>>

Mutate_AlwaysMutates ==
    /\ Alive /\ pc = "mutate"
    /\ \E enabled \in Answers("fraudDetectionEnabled"), resp \in Answers("mutateFraudOrders") :
        IF getFeatureFlagValue(enabled) > 0
        THEN /\ mutationPercentage' = getFeatureFlagValue(resp)
             /\ orders' = [orders EXCEPT !.mutated = TRUE]
             /\ readOn' = (readOn \/ ResolvedOn(enabled) \/ ResolvedOn(resp))
        ELSE /\ mutationPercentage' = NotRead
             /\ orders' = orders
             /\ readOn' = (readOn \/ ResolvedOn(enabled))
    /\ pc' = NextStep("mutate")
    /\ UNCHANGED <<outside, badQueryPercentage, executed, exitCode, db, config, mainCounters,
                   saved, alert, riskScore, store,
                   scheduler, shutdown, now, savedOk>>

\* lines 167-172: with fraudDetectionEnabled > 0 and mutateFraudOrders > 0 the
\* order goes through the mutator
Mutate ==
    /\ Alive /\ pc = "mutate"
    /\ \E enabled \in Answers("fraudDetectionEnabled"), resp \in Answers("mutateFraudOrders"), roll \in Rolls :
        IF getFeatureFlagValue(enabled) > 0
        THEN /\ mutationPercentage' = getFeatureFlagValue(resp)
             /\ orders' = IF mutationPercentage' > 0
                           THEN mutateOrder(orders, mutationPercentage', roll)
                           ELSE orders
             /\ readOn' = (readOn \/ ResolvedOn(enabled) \/ ResolvedOn(resp))
        ELSE /\ mutationPercentage' = NotRead
             /\ orders' = orders
             /\ readOn' = (readOn \/ ResolvedOn(enabled))
    /\ pc' = NextStep("mutate")
    /\ UNCHANGED <<outside, badQueryPercentage, executed, exitCode, db, config, mainCounters,
                   saved, alert, riskScore, store,
                   scheduler, shutdown, now, savedOk>>

\* orderLogRepository.saveOrder(orders): true after inserting one entry stamped
\* with the ingestion time, false on a handled failure, an exception on an
\* infrastructure failure
SaveOutcomes == IF db = "open" THEN {"true", "false", "throw"} ELSE {"false", "throw"}
saveOrder(entries, o, res, msg, t) ==
    IF res = "true"
    THEN Append(entries, [msg |-> msg, orderId |-> o.orderId, mutated |-> o.mutated,
                          ts |-> t])
    ELSE entries

\* line 179: the order is reported as logged when saveOrder returned true
ReportedSaved_NotThrown(res) == res # "throw"
ReportedSaved(res) == res = "true"

Save_Twice ==
    /\ Alive /\ pc = "save"
    /\ \E res \in SaveOutcomes :
        /\ store' = saveOrder(saveOrder(store, orders, res, acc + 1, now),
                              orders, res, acc + 1, now)
        /\ saved' = res
        /\ savedOk' = IF ReportedSaved(res)
                      THEN savedOk \cup {[msg |-> acc + 1, ts |-> now, during |-> cleanupState]}
                      ELSE savedOk
        /\ pc' = AfterCall("save", res = "throw")
    /\ UNCHANGED <<outside, flagLocals, exitCode, db, config, mainCounters, orders, alert,
                   riskScore,
                   scheduler, shutdown, now>>

Save_SkipsSeen ==
    /\ Alive /\ pc = "save"
    /\ \E res \in SaveOutcomes :
        /\ store' = IF \E i \in DOMAIN store : store[i].orderId = orders.orderId
                     THEN store
                     ELSE saveOrder(store, orders, res, acc + 1, now)
        /\ saved' = res
        /\ savedOk' = IF ReportedSaved(res)
                      THEN savedOk \cup {[msg |-> acc + 1, ts |-> now, during |-> cleanupState]}
                      ELSE savedOk
        /\ pc' = AfterCall("save", res = "throw")
    /\ UNCHANGED <<outside, flagLocals, exitCode, db, config, mainCounters, orders, alert,
                   riskScore,
                   scheduler, shutdown, now>>

\* lines 176-186
Save ==
    /\ Alive /\ pc = "save"
    /\ \E res \in SaveOutcomes :
        /\ store' = saveOrder(store, orders, res, acc + 1, now)
        /\ saved' = res
        /\ savedOk' = IF ReportedSaved(res)
                      THEN savedOk \cup {[msg |-> acc + 1, ts |-> now, during |-> cleanupState]}
                      ELSE savedOk
        /\ pc' = AfterCall("save", res = "throw")
    /\ UNCHANGED <<outside, flagLocals, exitCode, db, config, mainCounters, orders, alert,
                   riskScore,
                   scheduler, shutdown, now>>

Analyze_ReusesFirstCheck ==
    /\ Alive /\ pc = "analyze"
    /\ \E enabled \in Answers("fraudDetectionEnabled") :
        /\ readOn' = (readOn \/ ResolvedOn(enabled))
        /\ IF mutationPercentage # NotRead
           THEN \E threw \in BOOLEAN, score \in Scores :
                /\ alert' = IF threw THEN "throw" ELSE analyzeOrder(score)
                /\ riskScore' = IF threw THEN NoScore ELSE score
                /\ fraudAlertCount' = IF ~threw /\ alert' # "null"
                                      THEN fraudAlertCount + 1
                                      ELSE fraudAlertCount
                /\ pc' = AfterCall("analyze", threw)
           ELSE /\ pc' = NextStep("analyze")
                /\ UNCHANGED <<alert, riskScore, fraudAlertCount>>
    /\ UNCHANGED <<outside, mutationPercentage, badQueryPercentage, executed, exitCode, db,
                   config, totalCount, batch, acc, polled, orders, saved, store, scheduler,
                   shutdown, now, savedOk>>

\* lines 188-205: with fraudDetectionEnabled > 0 the order is analyzed; the call
\* returns an alert or null, or throws (getAlertStats, a read inside the same try
\* block, can only add a caught exception)
Analyze ==
    /\ Alive /\ pc = "analyze"
    /\ \E enabled \in Answers("fraudDetectionEnabled") :
        /\ readOn' = (readOn \/ ResolvedOn(enabled))
        /\ IF getFeatureFlagValue(enabled) > 0
           THEN \E threw \in BOOLEAN, score \in Scores :
                /\ alert' = IF threw THEN "throw" ELSE analyzeOrder(score)
                /\ riskScore' = IF threw THEN NoScore ELSE score
                /\ fraudAlertCount' = IF ~threw /\ alert' # "null"
                                      THEN fraudAlertCount + 1
                                      ELSE fraudAlertCount
                /\ pc' = AfterCall("analyze", threw)
           ELSE /\ pc' = NextStep("analyze")
                /\ UNCHANGED <<alert, riskScore, fraudAlertCount>>
    /\ UNCHANGED <<outside, mutationPercentage, badQueryPercentage, executed, exitCode, db, config, totalCount, batch, acc, polled, orders,
                   saved, store, scheduler, shutdown, now, savedOk>>

FinishRecord_CountsSaved ==
    /\ acc' = IF saved = "true" THEN acc + 1 ELSE acc
    /\ batch' = batch - 1
    /\ IF batch = 1
       THEN totalCount' = acc' /\ pc' = "poll"
       ELSE totalCount' = totalCount /\ pc' = "flagQueue"
    /\ orders' = NoOrder
    /\ saved' = "none"
    /\ alert' = "none"
    /\ riskScore' = NoScore

\* line 220: the fold step returns newCount; after the last record of the batch
\* the fold's result is assigned to totalCount and the loop polls again
FinishRecord ==
    /\ acc' = acc + 1
    /\ batch' = batch - 1
    /\ IF batch = 1
       THEN totalCount' = acc + 1 /\ pc' = "poll"
       ELSE totalCount' = totalCount /\ pc' = "flagQueue"
    /\ orders' = NoOrder
    /\ saved' = "none"
    /\ alert' = "none"
    /\ riskScore' = NoScore

\* lines 207-220: with executeBadQueries > 0 maybeExecuteBadQuery is called
BadQueryOutcomes == {"true", "false", "throw"}
BadQuery ==
    /\ Alive /\ pc = "badQuery"
    /\ \E resp \in Answers("executeBadQueries") :
        /\ badQueryPercentage' = getFeatureFlagValue(resp)
        /\ readOn' = (readOn \/ ResolvedOn(resp))
        /\ \E res \in (IF badQueryPercentage' > 0 THEN BadQueryOutcomes ELSE {"none"}) :
                /\ executed' = res
                /\ IF res = "throw" /\ "badQuery" \notin TryCatchSites
                   THEN pc' = "crashed" /\ UNCHANGED <<totalCount, batch, acc, mainLocals>>
                   ELSE FinishRecord
    /\ UNCHANGED <<outside, mutationPercentage, exitCode, db, config, fraudAlertCount, polled, store,
                   scheduler, shutdown, now, savedOk>>

Next ==
    \/ InitDatabase
    \/ CheckKafkaAddr
    \/ StartCleanup
    \/ AddShutdownHook
    \/ Poll
    \/ FlagQueue
    \/ Sleep
    \/ Decode
    \/ Mutate
    \/ Save
    \/ Analyze
    \/ BadQuery

Spec == Init /\ [][Next]_vars

\* the flag service given values, all flags off or all on at the start: each
\* read is answered with the value the flag has at that moment, and an
\* operator changes one flag at a time while the consumer runs. The changes
\* are taken between two messages and between the reads of lines 167 and 189:
\* a change elsewhere is seen by the same reads as one at the next such point
InitFlags ==
    /\ InitMain /\ InitMobile /\ InitOthers /\ uuidIdx = 0
    /\ flagd = "up"
    /\ \E setting \in FlagSettings : FlagdHolds([ff \in FlagNames |-> setting])

SetFlag ==
    /\ Alive /\ pc \in {"poll", "flagQueue", "save"}
    /\ \E ff \in FlagNames :
          \E setting \in FlagSettings \ {flagdValues[ff]} :
              flagdValues' = [flagdValues EXCEPT ![ff] = setting]
    /\ flagChanges < MaxFlagChanges
    /\ flagChanges' = flagChanges + 1
    /\ UNCHANGED <<mobile, others, flagd, flagLocals, pc, exitCode, db, config, mainCounters,
                   mainLocals, store, scheduler, shutdown, now, savedOk>>

NextFlags ==
    \/ Next
    \/ SetFlag

FlagSpec == InitFlags /\ [][NextFlags]_vars

\* ------------------------------------------------------- cleanup scheduler
\* the entries a cleanup at time t with retention r keeps
Retained(entries, t, r) ==
    LET Keep(e) == e.ts >= t - r IN SelectSeq(entries, Keep)

TimerFire_DeletesInline ==
    /\ Alive /\ cleanupState = "Waiting"
    /\ (now - lastFire) * 24 >= intervalHours
    /\ store' = Retained(store, now, retentionDays)
    /\ lastCycle' = "ok"
    /\ lastFire' = now
    /\ UNCHANGED <<outside, flagLocals, pc, exitCode, db, config, mainCounters, mainLocals,
                   cleanupState, retentionDays, intervalHours, shutdown, now, savedOk>>

\* the period has elapsed: the scheduler thread begins a cleanup cycle
TimerFire ==
    /\ Alive /\ cleanupState = "Waiting"
    /\ (now - lastFire) * 24 >= intervalHours
    /\ cleanupState' = "Deleting"
    /\ lastFire' = now
    /\ UNCHANGED <<outside, flagLocals, pc, exitCode, db, config, mainCounters, mainLocals, store,
                   retentionDays, intervalHours, lastCycle, shutdown, now, savedOk>>

CleanupCycle_StopsOnFailure ==
    /\ Alive /\ cleanupState = "Deleting"
    /\ \E ok \in (IF db = "open" THEN BOOLEAN ELSE {FALSE}) :
        IF ok
        THEN /\ store' = Retained(store, now, retentionDays)
             /\ lastCycle' = "ok"
             /\ cleanupState' = "Waiting"
        ELSE /\ store' = store
             /\ lastCycle' = "failed"
             /\ cleanupState' = "Stopped"
    /\ UNCHANGED <<outside, flagLocals, pc, exitCode, db, config, mainCounters, mainLocals,
                   retentionDays, intervalHours, lastFire, shutdown, now, savedOk>>

\* one cleanup cycle: delete the entries older than now - retentionDays; a
\* failure is logged and the scheduler waits for the next period
CleanupCycle ==
    /\ Alive /\ cleanupState = "Deleting"
    /\ \E ok \in (IF db = "open" THEN BOOLEAN ELSE {FALSE}) :
        IF ok
        THEN store' = Retained(store, now, retentionDays) /\ lastCycle' = "ok"
        ELSE store' = store /\ lastCycle' = "failed"
    /\ cleanupState' = "Waiting"
    /\ UNCHANGED <<outside, flagLocals, pc, exitCode, db, config, mainCounters, mainLocals,
                   retentionDays, intervalHours, lastFire, shutdown, now, savedOk>>

\* databaseCleanup.stop(): the background task is shut down, a cycle in
\* progress is abandoned
stop ==
    /\ cleanupState' = "Stopped"
    /\ UNCHANGED <<retentionDays, intervalHours, lastFire, lastCycle>>

\* ----------------------------------------------------------- shutdown hook
\* lines 148-152: the statements of the hook, in order
HookSteps_CloseFirst == <<"close", "stop">>
HookSteps == <<"stop", "close">>

\* the JVM begins its shutdown (a signal, or the last non-daemon thread ended)
ShutdownSignal ==
    /\ Alive /\ hook = "registered"
    /\ hook' = "running"
    /\ hookIdx' = 1
    /\ UNCHANGED <<outside, flagLocals, pc, exitCode, db, config, mainCounters, mainLocals, store,
                   scheduler, now, savedOk>>

HookAdvance ==
    /\ hookIdx' = hookIdx + 1
    /\ hook' = IF hookIdx = Len(HookSteps) THEN "done" ELSE "running"

\* line 150
HookStop ==
    /\ hook = "running" /\ HookSteps[hookIdx] = "stop"
    /\ stop
    /\ HookAdvance
    /\ UNCHANGED <<outside, flagLocals, pc, exitCode, db, config, mainCounters, mainLocals, store,
                   now, savedOk>>

\* line 151: DatabaseConfig.close()
HookClose ==
    /\ hook = "running" /\ HookSteps[hookIdx] = "close"
    /\ db' = "closed"
    /\ HookAdvance
    /\ UNCHANGED <<outside, flagLocals, pc, exitCode, config, mainCounters, mainLocals, store,
                   scheduler, now, savedOk>>

\* -------------------------------------------------------------------- clock
Tick ==
    /\ Alive /\ now < MaxNow
    /\ now' = now + 1
    /\ UNCHANGED <<outside, flagLocals, pc, exitCode, db, config, mainCounters, mainLocals, store,
                   scheduler, shutdown, savedOk>>

\* the consumer with the flag service down, next to the scheduler, the
\* shutdown hook and the clock
InitCleanup == InitMain /\ InitMobile /\ InitOthers /\ uuidIdx = 0 /\ flagd = "down" /\ FlagdHolds(AnyValues)

NextCleanup ==
    \/ InitDatabase
    \/ CheckKafkaAddr
    \/ StartCleanup
    \/ AddShutdownHook
    \/ Poll
    \/ FlagQueue
    \/ Decode
    \/ Mutate
    \/ Save
    \/ Analyze
    \/ BadQuery
    \/ TimerFire
    \/ CleanupCycle
    \/ ShutdownSignal
    \/ HookStop
    \/ HookClose
    \/ Tick

CleanupSpec == InitCleanup /\ [][NextCleanup]_vars

\* ------------------------------------------------- mobile app: the session
\* The app awaits each call of getSessionId, getSplunkGlobalAttributes and
\* resetSession before it makes the next one; the clock may advance while a
\* call waits for AsyncStorage.

\* generateUUID(): 122 random bits; the values it returns in a run are those of
\* Uuids from a place drawn at the start on, so that none comes twice
CanGenerate == generated < MaxUuids
generateUUID == Uuids[((uuidIdx + generated) % Len(Uuids)) + 1]

\* lines 160-169: the attributes getSplunkGlobalAttributes builds for a session
\* id, with the default deploymentType
GlobalAttributes(sessionId) ==
    LET user == randomUser(sessionId)
    IN  [id |-> user.id, role |-> user.role, deployment |-> "green"]

\* getSessionId, made at gsNow', returns id; getSplunkGlobalAttributes, when it
\* was the function f called, generates the user from it
Return(id, outcome, f) ==
    /\ returned' = id
    /\ gsOutcome' = outcome
    /\ lastCall' = gsNow'
    /\ gsPc' = "idle"
    /\ afterReset' = FALSE
    /\ IF f = "getSplunkGlobalAttributes"
       THEN /\ attrs' = GlobalAttributes(id)
            /\ attrsSession' = id
            /\ attrsStored' = storage'
       ELSE UNCHANGED <<attrs, attrsSession, attrsStored>>

GetItem_AlwaysNew ==
    /\ gsPc = "idle"
    /\ \E f \in {"getSessionId", "getSplunkGlobalAttributes"}, ok \in BOOLEAN :
        /\ gsNow' = clock
        /\ IF ~ok
           THEN /\ CanGenerate /\ generated' = generated + 1
                /\ UNCHANGED <<storage, newUserId>>
                /\ caller' = "none"
                /\ Return(generateUUID, "fallback", f)
           ELSE /\ CanGenerate /\ generated' = generated + 1
                /\ newUserId' = generateUUID
                /\ caller' = f
                /\ gsPc' = "setItem"
                /\ UNCHANGED <<storage, returned, gsOutcome, lastCall, attrs,
                               attrsSession, attrsStored, afterReset>>
    /\ UNCHANGED <<consumerVars, workflows, others, clock, uuidIdx, removedId>>

\* lines 109-131, 138-141 and 155-159: a call of getSessionId, alone or from
\* getSplunkGlobalAttributes: now is read and getItem settles; a stored session
\* younger than SESSION_TIMEOUT is returned, otherwise a new id is generated and
\* setItem is awaited; a failure of getItem is answered by a fallback id
GetItem ==
    /\ gsPc = "idle"
    /\ \E f \in {"getSessionId", "getSplunkGlobalAttributes"}, ok \in BOOLEAN :
        /\ gsNow' = clock
        /\ IF ~ok
           THEN /\ CanGenerate /\ generated' = generated + 1
                /\ UNCHANGED <<storage, newUserId>>
                /\ caller' = "none"
                /\ Return(generateUUID, "fallback", f)
           ELSE IF /\ storage # NoItem
                   /\ parse(storage).timestamp # 0
                   /\ gsNow' - parse(storage).timestamp < SESSION_TIMEOUT
           THEN /\ UNCHANGED <<storage, newUserId, generated>>
                /\ caller' = "none"
                /\ Return(parse(storage).userId, "stored", f)
           ELSE /\ CanGenerate /\ generated' = generated + 1
                /\ newUserId' = generateUUID
                /\ caller' = f
                /\ gsPc' = "setItem"
                /\ UNCHANGED <<storage, returned, gsOutcome, lastCall, attrs,
                               attrsSession, attrsStored, afterReset>>
    /\ UNCHANGED <<consumerVars, workflows, others, clock, uuidIdx, removedId>>

\* lines 126-141: setItem settles; the new session is stored with the time the
\* call was made at and its id returned; a failure of setItem is answered by a
\* fallback id
SetItem ==
    /\ gsPc = "setItem"
    /\ \E ok \in BOOLEAN :
        IF ok
        THEN /\ storage' = stringify([userId |-> newUserId, currencyCode |-> "USD",
                                      timestamp |-> gsNow])
             /\ UNCHANGED <<generated, gsNow>>
             /\ Return(newUserId, "created", caller)
        ELSE /\ storage' = storage
             /\ CanGenerate /\ generated' = generated + 1
             /\ UNCHANGED gsNow
             /\ Return(generateUUID, "fallback", caller)
    /\ newUserId' = NoId
    /\ caller' = "none"
    /\ UNCHANGED <<consumerVars, workflows, others, clock, uuidIdx, removedId>>

resetSession_KeepsItem ==
    /\ gsPc = "idle"
    /\ \E ok \in BOOLEAN :
        IF ok
        THEN /\ storage' = storage
             /\ afterReset' = TRUE
             /\ removedId' = IF storage = NoItem THEN NoId ELSE parse(storage).userId
        ELSE UNCHANGED <<storage, afterReset, removedId>>
    /\ UNCHANGED <<consumerVars, workflows, others, clock, gsPc, gsNow, newUserId, caller, returned,
                   gsOutcome, lastCall, attrs, attrsSession, attrsStored, uuidIdx, generated>>

\* lines 145-152: removeItem; its failure is logged
resetSession ==
    /\ gsPc = "idle"
    /\ \E ok \in BOOLEAN :
        IF ok
        THEN /\ storage' = NoItem
             /\ afterReset' = TRUE
             /\ removedId' = IF storage = NoItem THEN NoId ELSE parse(storage).userId
        ELSE UNCHANGED <<storage, afterReset, removedId>>
    /\ UNCHANGED <<consumerVars, workflows, others, clock, gsPc, gsNow, newUserId, caller, returned,
                   gsOutcome, lastCall, attrs, attrsSession, attrsStored, uuidIdx, generated>>

\* time passes on the device
TickDevice ==
    /\ clock < MaxTicks * TickMs
    /\ clock' = clock + TickMs
    /\ UNCHANGED <<consumerVars, workflows, others, storage, gsPc, gsNow, newUserId, caller,
                   returned, gsOutcome, lastCall, attrs, attrsSession, attrsStored, uuidIdx,
                   generated, afterReset, removedId>>

\* the values generateUUID returns in the run start at any place of Uuids
InitSession ==
    /\ InitMain /\ flagd = "up" /\ FlagdHolds(AnyValues)
    /\ InitMobile /\ InitOthers
    /\ uuidIdx \in 0..(Len(Uuids) - 1)

NextSession ==
    \/ GetItem
    \/ SetItem
    \/ resetSession
    \/ TickDevice

SessionSpec == InitSession /\ [][NextSession]_vars

\* ------------------------------------------------------------ workflow spans
\* getTracer: the provider's tracer, null without a provider or on an exception
getTracer(provider, throws) ==
    IF throws THEN "null" ELSE IF provider THEN "tracer" ELSE "null"

\* createWorkflowSpan: null without a tracer or when startSpan throws
createWorkflowSpan(tracer, throws) ==
    IF tracer = "null" THEN "null" ELSE IF throws THEN "null" ELSE "span"

\* the catch block, lines 97-103: with a span, recordException(error), then
\* the argument of setStatus reads error.message, which throws a TypeError
\* when error is undefined; otherwise setStatus and throw error
catchBlock(w, error) ==
    IF w.span = "null" THEN [w EXCEPT !.error = error]
    ELSE IF error = Undefined
    THEN [w EXCEPT !.log = Append(w.log, "recordException"), !.error = TypeError]
    ELSE [w EXCEPT !.log = w.log \o <<"recordException", "setStatus">>, !.error = error]

\* the finally block, lines 104-117: with a span, end() and, with a provider,
\* a forceFlush that is not awaited
finallyBlock(w, provider) ==
    IF w.span = "null" THEN w
    ELSE [w EXCEPT !.log = Append(w.log, "end"),
                   !.flushes = IF provider THEN w.flushes + 1 ELSE w.flushes]

\* lines 80-89: the call creates its span and calls fn
Call(c) ==
    /\ workflows[c].pc = "idle"
    /\ \E provider \in BOOLEAN, tracerThrows \in BOOLEAN, startSpanThrows \in BOOLEAN,
          hasOnResult \in BOOLEAN :
          workflows' = [workflows EXCEPT
              ![c].pc = "fn",
              ![c].span = createWorkflowSpan(getTracer(provider, tracerThrows),
                                             startSpanThrows),
              ![c].onResult = hasOnResult]
    /\ UNCHANGED <<consumerVars, sessionVars, others>>

\* lines 89-117: fn settles; on a result onResult is called when there are a
\* span and an onResult, and what it throws reaches the catch block too
Settle(c) ==
    /\ workflows[c].pc = "fn"
    /\ \E result \in {"result"} \cup Rejections, onResultThrows \in BOOLEAN,
          provider \in BOOLEAN :
          LET w == workflows[c]
              called == result = "result" /\ w.span # "null" /\ w.onResult
              tried == [w EXCEPT !.thrown = IF result = "result" THEN NoError ELSE result,
                                 !.log = IF called THEN Append(w.log, "onResult")
                                         ELSE w.log]
              error == IF result # "result" THEN result
                       ELSE IF called /\ onResultThrows THEN OnResultError
                       ELSE NoError
              caught == IF error = NoError THEN [tried EXCEPT !.outcome = "returned"]
                        ELSE [catchBlock(tried, error) EXCEPT !.outcome = "threw"]
          IN  /\ onResultThrows => called
              /\ provider => w.span # "null"
              /\ workflows' = [workflows EXCEPT
                     ![c] = [finallyBlock(caught, provider) EXCEPT !.pc = "done"]]
    /\ UNCHANGED <<consumerVars, sessionVars, others>>

NextSpan ==
    \/ \E c \in Calls : Call(c)
    \/ \E c \in Calls : Settle(c)

SpanSpec == Init /\ [][NextSpan]_vars

\* --------------------------------------------------------------- cart page
\* the user opens the cart page: a new Cart component with its own
\* cartErrorSentRef = useRef(false), line 34; its effect runs after the mount
MountCart ==
    /\ ~cartMounted
    /\ cartMounts < MaxMounts
    /\ cartMounted' = TRUE
    /\ cartErrorSentRef' = FALSE
    /\ effectPending' = TRUE
    /\ cartMounts' = cartMounts + 1
    /\ UNCHANGED <<consumerVars, mobile, buildVars, rumVars, items, windowTracer, cartSpans>>

\* the user leaves the cart page for another page: the component and its ref
\* are discarded, a scheduled effect does not run
UnmountCart ==
    /\ cartMounted
    /\ cartMounted' = FALSE
    /\ cartErrorSentRef' = FALSE
    /\ effectPending' = FALSE
    /\ UNCHANGED <<consumerVars, mobile, buildVars, rumVars, items, windowTracer, cartSpans, cartMounts>>

\* the cart changes; a mounted Cart is rendered again and, items.length being
\* the dependency of its effect (line 63), the effect is scheduled
SetItems ==
    /\ \E n \in (0..MaxItems) \ {items} : items' = n
    /\ effectPending' = cartMounted
    /\ UNCHANGED <<consumerVars, mobile, buildVars, rumVars, cartMounted, cartErrorSentRef, windowTracer, cartSpans,
                   cartMounts>>

\* the instrumentation sets window.tracer
SetTracer ==
    /\ ~windowTracer
    /\ windowTracer' = TRUE
    /\ UNCHANGED <<consumerVars, mobile, buildVars, rumVars, cartMounted, cartErrorSentRef, items, effectPending,
                   cartSpans, cartMounts>>

\* the effect, lines 36-63: startSpan may throw after the ref was set
CartEffect ==
    /\ cartMounted /\ effectPending
    /\ effectPending' = FALSE
    /\ IF cartErrorSentRef \/ items = 0 \/ ~windowTracer
       THEN UNCHANGED <<cartErrorSentRef, cartSpans>>
       ELSE /\ cartErrorSentRef' = TRUE
            /\ \E throws \in BOOLEAN :
                  cartSpans' = IF throws THEN cartSpans
                               ELSE Append(cartSpans,
                                           [items |-> items, tracer |-> windowTracer,
                                            mount |-> cartMounts])
    /\ UNCHANGED <<consumerVars, mobile, buildVars, rumVars, cartMounted, items, windowTracer, cartMounts>>

NextCart ==
    \/ MountCart
    \/ UnmountCart
    \/ SetItems
    \/ SetTracer
    \/ CartEffect

CartSpec == Init /\ [][NextCart]_vars

\* ------------------------------------------------------- build-saucelabs.sh
\* exit: the script ends with the status, cmd being what ended it
Exit(status, cmd) ==
    /\ bsPc' = "exited"
    /\ bsExit' = status
    /\ failed' = cmd

\* the restore blocks (lines 197-201, 239-243, 264-268, 282-286, 293-297):
\* mv of each backup that exists over its file
Restore ==
    /\ files' = [f \in ConfigFiles |->
                    IF backups[f] # "absent" THEN backups[f] ELSE files[f]]
    /\ backups' = [f \in ConfigFiles |-> "absent"]

\* a build command run as a simple command: under set -e a failure ends the
\* script with the command's status before the next line is read
Run(cmd, status, next) ==
    IF ErrExit /\ status # 0
    THEN Exit(status, cmd) /\ UNCHANGED <<files, backups, ostype, lastStatus>>
    ELSE /\ bsPc' = next
         /\ lastStatus' = status
         /\ UNCHANGED <<bsExit, failed, files, backups, ostype>>

\* lines 71-84: the required files
CheckFiles ==
    /\ bsPc = "start"
    /\ IF \E f \in RequiredFiles : files[f] = "absent"
       THEN Exit(1, "missing file")
       ELSE bsPc' = "backup" /\ UNCHANGED <<bsExit, failed>>
    /\ UNCHANGED <<consumerVars, mobile, cartVars, rumVars, files, backups, ostype, lastStatus>>

\* lines 86-96: cp of each file that exists to its .backup
Backup ==
    /\ bsPc = "backup"
    /\ backups' = [f \in ConfigFiles |-> files[f]]
    /\ bsPc' = "update"
    /\ UNCHANGED <<consumerVars, mobile, cartVars, rumVars, bsExit, files, ostype, lastStatus, failed>>

\* lines 98-151: the version is written into each file that exists; a file
\* whose pattern does not match is left as it is (.env gets the line appended)
UpdateVersions ==
    /\ bsPc = "update"
    /\ \E stale \in StaleSets :
          files' = [f \in ConfigFiles |->
                       IF files[f] = "absent" \/ f \in stale THEN files[f] ELSE "versioned"]
    /\ bsPc' = "verify"
    /\ UNCHANGED <<consumerVars, mobile, cartVars, rumVars, bsExit, backups, ostype, lastStatus, failed>>

\* the files the verification reads: Info.plist only on macOS (line 178)
Verified ==
    {f \in ConfigFiles : files[f] # "absent" /\ (f = IOS_PLIST => ostype = "darwin")}

\* lines 153-205
VerifyVersions ==
    /\ bsPc = "verify"
    /\ IF \E f \in Verified : files[f] # "versioned"
       THEN Restore /\ Exit(1, "verification")
       ELSE bsPc' = "xcodebuild" /\ UNCHANGED <<bsExit, failed, files, backups>>
    /\ UNCHANGED <<consumerVars, mobile, cartVars, rumVars, ostype, lastStatus>>

\* lines 222-232
Xcodebuild ==
    /\ bsPc = "xcodebuild"
    /\ \E status \in BuildStatuses : Run("xcodebuild", status, "iosCheck")
    /\ UNCHANGED <<consumerVars, mobile, cartVars, rumVars>>

\* lines 234-245: if [ $? -eq 0 ]
IosCheck ==
    /\ bsPc = "iosCheck"
    /\ IF lastStatus = 0
       THEN bsPc' = "gradlewClean" /\ UNCHANGED <<bsExit, failed, files, backups>>
       ELSE Restore /\ Exit(1, "xcodebuild")
    /\ UNCHANGED <<consumerVars, mobile, cartVars, rumVars, ostype, lastStatus>>

\* line 253
GradlewClean ==
    /\ bsPc = "gradlewClean"
    /\ \E status \in BuildStatuses : Run("gradlew", status, "gradlewAssemble")
    /\ UNCHANGED <<consumerVars, mobile, cartVars, rumVars>>

\* lines 254-255: GRADLE_EXIT_CODE=$? is the next line
GradlewAssemble ==
    /\ bsPc = "gradlewAssemble"
    /\ \E status \in BuildStatuses : Run("gradlew", status, "androidCheck")
    /\ UNCHANGED <<consumerVars, mobile, cartVars, rumVars>>

\* lines 257-270: if [ $GRADLE_EXIT_CODE -eq 0 ]
AndroidCheck ==
    /\ bsPc = "androidCheck"
    /\ IF lastStatus = 0
       THEN bsPc' = "artifacts" /\ UNCHANGED <<bsExit, failed, files, backups>>
       ELSE Restore /\ Exit(1, "gradlew")
    /\ UNCHANGED <<consumerVars, mobile, cartVars, rumVars, ostype, lastStatus>>

\* lines 272-299: the .app directory and the .apk file
VerifyArtifacts ==
    /\ bsPc = "artifacts"
    /\ \E iosApp \in BOOLEAN, androidApk \in BOOLEAN :
          IF iosApp /\ androidApk
          THEN bsPc' = "package" /\ UNCHANGED <<bsExit, failed, files, backups>>
          ELSE Restore /\ Exit(1, "artifact")
    /\ UNCHANGED <<consumerVars, mobile, cartVars, rumVars, ostype, lastStatus>>

\* lines 304-345: the package is zipped, then the backups are removed and the
\* script goes on to the README and the release
Package ==
    /\ bsPc = "package"
    /\ backups' = [f \in ConfigFiles |-> "absent"]
    /\ Exit(0, "none")
    /\ UNCHANGED <<consumerVars, mobile, cartVars, rumVars, files, ostype, lastStatus>>

InitBuildSpec ==
    /\ InitMain /\ flagd = "up" /\ FlagdHolds(AnyValues)
    /\ InitMobile /\ uuidIdx = 0
    /\ InitCart /\ InitRum
    /\ \E present \in FileSets, os \in OsTypes : BuildStart(present, os)

NextBuild ==
    \/ CheckFiles
    \/ Backup
    \/ UpdateVersions
    \/ VerifyVersions
    \/ Xcodebuild
    \/ IosCheck
    \/ GradlewClean
    \/ GradlewAssemble
    \/ AndroidCheck
    \/ VerifyArtifacts
    \/ Package

BuildSpec == InitBuildSpec /\ [][NextBuild]_vars

\* -------------------------------------------------------------- RUM start-up
\* RootLayout, lines 26-41: null until the fonts, the tracer and RUM are loaded
layoutLoaded(fonts, tr, rumL) == fonts /\ tr /\ rumL

\* the catch of initializeSplunkRum, lines 152-155: whatever is thrown inside
\* the try block, the promise resolves with null
settle_NoCatch(threw, value) == IF threw THEN "rejected" ELSE value

settle(threw, value) == IF threw THEN "null" ELSE value

\* useSplunkRum's first effect, lines 165-172
RumEffect ==
    /\ rumPc = "idle" /\ ~rumLoaded
    /\ rumPc' = "getRegionConfig"
    /\ UNCHANGED <<consumerVars, mobile, cartVars, buildVars, regionItem, processEnv, regionConfig,
                   rumOutcome, rumCause, rum, rumLoaded, navigationTracking, fontsLoaded,
                   tracerLoaded, rendered>>

\* lines 101-119: the region's configuration and its validation
GetRegionConfig ==
    /\ rumPc = "getRegionConfig"
    /\ \E fails \in BOOLEAN :
          /\ fails => regionItem # ""
          /\ regionConfig' = getRegionConfig(getRegion(regionItem, fails), processEnv)
    /\ IF regionConfig'.realm = "" \/ regionConfig'.rumToken = "" \/ getAppName(processEnv) = ""
       THEN /\ rumOutcome' = settle(FALSE, "null")
            /\ rumCause' = "missing configuration"
            /\ rumPc' = "settled"
       ELSE /\ rumPc' = "getSplunkGlobalAttributes"
            /\ UNCHANGED <<rumOutcome, rumCause>>
    /\ UNCHANGED <<consumerVars, mobile, cartVars, buildVars, regionItem, processEnv, rum, rumLoaded,
                   navigationTracking, fontsLoaded, tracerLoaded, rendered>>

\* line 122: getSplunkGlobalAttributes resolves with or without the storage, a
\* rejection would reach the catch
GetGlobalAttributes ==
    /\ rumPc = "getSplunkGlobalAttributes"
    /\ \E threw \in BOOLEAN :
          IF threw
          THEN /\ rumOutcome' = settle(TRUE, "rum")
               /\ rumCause' = "attributes failed"
               /\ rumPc' = "settled"
          ELSE /\ rumPc' = "init"
               /\ UNCHANGED <<rumOutcome, rumCause>>
    /\ UNCHANGED <<consumerVars, mobile, cartVars, buildVars, regionItem, processEnv, regionConfig,
                   rum, rumLoaded, navigationTracking, fontsLoaded, tracerLoaded, rendered>>

\* lines 124-155: SplunkRum.init returns the instance or throws
SplunkRumInit ==
    /\ rumPc = "init"
    /\ \E threw \in BOOLEAN :
          /\ rumOutcome' = settle(threw, "rum")
          /\ rumCause' = IF threw THEN "init threw" ELSE "initialized"
    /\ rumPc' = "settled"
    /\ UNCHANGED <<consumerVars, mobile, cartVars, buildVars, regionItem, processEnv, regionConfig,
                   rum, rumLoaded, navigationTracking, fontsLoaded, tracerLoaded, rendered>>

\* lines 167-170 and 175-180: the then callback on fulfilment, the render it
\* causes and the second effect
ThenLoaded ==
    /\ rumPc = "settled" /\ rumOutcome # "rejected"
    /\ rum' = rumOutcome
    /\ rumLoaded' = TRUE
    /\ navigationTracking' = TRUE
    /\ rendered' = layoutLoaded(fontsLoaded, tracerLoaded, TRUE)
    /\ rumPc' = "done"
    /\ UNCHANGED <<consumerVars, mobile, cartVars, buildVars, regionItem, processEnv, regionConfig,
                   rumOutcome, rumCause, fontsLoaded, tracerLoaded>>

\* useFonts reports the font loaded
LoadFonts ==
    /\ ~fontsLoaded
    /\ fontsLoaded' = TRUE
    /\ rendered' = layoutLoaded(TRUE, tracerLoaded, rumLoaded)
    /\ UNCHANGED <<consumerVars, mobile, cartVars, buildVars, regionItem, processEnv, rumPc,
                   regionConfig, rumOutcome, rumCause, rum, rumLoaded, navigationTracking,
                   tracerLoaded>>

\* useTracer reports the tracer loaded
LoadTracer ==
    /\ ~tracerLoaded
    /\ tracerLoaded' = TRUE
    /\ rendered' = layoutLoaded(fontsLoaded, TRUE, rumLoaded)
    /\ UNCHANGED <<consumerVars, mobile, cartVars, buildVars, regionItem, processEnv, rumPc,
                   regionConfig, rumOutcome, rumCause, rum, rumLoaded, navigationTracking,
                   fontsLoaded>>

InitRumSpec ==
    /\ InitMain /\ flagd = "up" /\ FlagdHolds(AnyValues)
    /\ InitMobile /\ uuidIdx = 0
    /\ InitCart /\ InitBuild
    /\ \E item \in RegionItems, e \in Envs : RumStart(item, e)

RumSteps ==
    \/ RumEffect
    \/ GetRegionConfig
    \/ GetGlobalAttributes
    \/ SplunkRumInit
    \/ ThenLoaded

NextRum ==
    \/ RumSteps
    \/ LoadFonts
    \/ LoadTracer

\* effects run, awaited promises settle and their callbacks are called; the
\* fonts and the tracer of the layout may never load
RumSpec == InitRumSpec /\ [][NextRum]_vars /\ WF_vars(RumSteps)

\* =================================================================== claims
InRecord == {"flagQueue", "sleeping", "decode", "mutate", "save", "analyze", "badQuery"}
StoredMsgs == {store[i].msg : i \in DOMAIN store}

\* C1: a record whose payload does not decode is dropped, neither persisted
\* nor analyzed, and the loop goes on with the next record or the next poll;
\* the decode step never ends the consumer.
C1_DecodeFailureIsDropped ==
    [][(pc = "decode" /\ pc' # pc) =>
          \/ pc' = "mutate" /\ orders' # NoOrder
          \/ /\ pc' \in {"flagQueue", "poll"}
             /\ store' = store
             /\ fraudAlertCount' = fraudAlertCount]_vars

\* C2: an exception thrown by saveOrder or analyzeOrder is caught in the loop:
\* the main thread goes on with the next step of the same record, the records
\* left in the batch stay to be processed, the consumer is never ended by such
\* an exception, and the process exits only during initialization.
C2_SaveAndAnalyzeExceptionsAreCaught ==
    /\ [](pc = "crashed" => saved = "none" /\ alert = "none")
    /\ [][/\ (pc = "save" /\ saved' = "throw") =>
                (pc' = "analyze" /\ batch' = batch /\ acc' = acc)
          /\ (pc = "analyze" /\ alert' = "throw") =>
                (pc' = "badQuery" /\ batch' = batch /\ acc' = acc)
          /\ (pc' = "exited" /\ pc # "exited") => pc \in {"initDb", "kafkaAddr"}]_vars

\* C2 witness: saveOrder and analyzeOrder both threw for a record that is not
\* the first one, and the main thread has reached the bad-query step.
C2_Witness ==
    pc = "badQuery" /\ saved = "throw" /\ alert = "throw" /\ acc >= 1

\* C3 as stated: between records, with no cleanup cycle so far, the store
\* holds exactly as many entries as records were processed.
C3_OneEntryPerConsumedMessage ==
    (pc \in {"poll", "flagQueue"} /\ lastCycle = "none") => Len(store) = acc

\* C3 amended: with no cleanup cycle so far, the store holds exactly one entry
\* for each record whose saveOrder returned true and none for any other
\* record, hence at most one per processed record.
C3_OneEntryPerSuccessfulSave ==
    lastCycle = "none" =>
        /\ \A i, j \in DOMAIN store : i # j => store[i].msg # store[j].msg
        /\ StoredMsgs = {r.msg : r \in savedOk}
        /\ Len(store) <= acc + (IF saved = "true" THEN 1 ELSE 0)
        /\ (pc \in InRecord /\ saved = "true") => acc + 1 \in StoredMsgs
        /\ (pc \in InRecord /\ saved # "true") => acc + 1 \notin StoredMsgs

\* C3 witness: three records were processed, two of them were saved.
C3_Witness ==
    pc = "poll" /\ totalCount = 3 /\ Len(store) = 2 /\ lastCycle = "none"

\* C4: within a record the steps run in the order decode, mutation, saveOrder,
\* analyzeOrder, maybeExecuteBadQuery, each at most once, and the next record
\* begins only after the last step of the current one.
StepRank(p) ==
    CASE p = "flagQueue" -> 0
      [] p = "sleeping" -> 1
      [] p = "decode" -> 2
      [] p = "mutate" -> 3
      [] p = "save" -> 4
      [] p = "analyze" -> 5
      [] p = "badQuery" -> 6
C4_StepsInOrderOneRecordAtATime ==
    /\ [](/\ saved # "none" => orders # NoOrder
          /\ alert # "none" => saved # "none"
          /\ orders.mutated => pc \in {"save", "analyze", "badQuery", "crashed"})
    /\ [][(pc \in InRecord /\ pc' # pc) =>
            \/ /\ pc' \in InRecord
               /\ StepRank(pc') > StepRank(pc)
               /\ acc' = acc /\ batch' = batch
            \/ /\ pc = "badQuery"
               /\ pc' = (IF batch = 1 THEN "poll" ELSE "flagQueue")
               /\ acc' = acc + 1 /\ batch' = batch - 1
               /\ orders' = NoOrder /\ saved' = "none" /\ alert' = "none"
            \/ pc' = "crashed"]_vars

\* C4 witness: a record after the first went through mutation, saveOrder and
\* analyzeOrder and stands before the bad-query step.
C4_Witness ==
    pc = "badQuery" /\ orders.mutated /\ saved = "true" /\ alert \in Severities /\ acc >= 1

\* C5: when DatabaseConfig.initialize throws or KAFKA_ADDR is absent the
\* process exits with a non-zero status, and at that exit the cleanup scheduler
\* was never started, no hook registered and no record polled.
C5_InitFailureExitsBeforeStart ==
    /\ (db = "uninit" /\ pc # "initDb") => pc = "exited"
    /\ (bootstrapServers = Unset /\ pc \notin {"initDb", "kafkaAddr"}) => pc = "exited"
    /\ pc = "exited" =>
        /\ exitCode > 0
        /\ cleanupState = "Stopped" /\ lastCycle = "none" /\ intervalHours = 0
        /\ hook = "unregistered"
        /\ polled = 0 /\ store = <<>>

\* C5 witness: the database came up, KAFKA_ADDR was absent, the process exited.
C5_Witness ==
    pc = "exited" /\ db = "open" /\ bootstrapServers = Unset /\ exitCode = 1

\* C6: the scheduler is always Stopped, Waiting or Deleting; it leaves Stopped
\* only by main's start, goes from Waiting to Deleting only when its period has
\* elapsed, from Deleting back to Waiting when the cycle ends, and to Stopped
\* only by the hook's stop; entries leave the store only while it is Deleting.
TimerDue == (now - lastFire) * 24 >= intervalHours
C6_SchedulerStateMachine ==
    /\ [](cleanupState \in {"Stopped", "Waiting", "Deleting"})
    /\ [][/\ cleanupState' # cleanupState =>
                \/ /\ cleanupState = "Stopped" /\ cleanupState' = "Waiting"
                   /\ pc = "startCleanup" /\ pc' = "addHook"
                \/ /\ cleanupState = "Waiting" /\ cleanupState' = "Deleting"
                   /\ TimerDue
                \/ /\ cleanupState = "Deleting" /\ cleanupState' = "Waiting"
                   /\ lastCycle' \in {"ok", "failed"}
                \/ /\ cleanupState \in {"Waiting", "Deleting"} /\ cleanupState' = "Stopped"
                   /\ hook = "running" /\ hookIdx' = hookIdx + 1
          /\ (Len(store') < Len(store) \/ lastCycle' # lastCycle) =>
                cleanupState = "Deleting"]_vars

\* C6 witness: a completed cycle brought the scheduler back to Waiting, the
\* timer fired again and it is Deleting for the second time.
C6_Witness ==
    cleanupState = "Deleting" /\ lastCycle = "ok" /\ hook = "registered"

\* C7: a cleanup cycle that runs at time now removes exactly the entries whose
\* ingestion timestamp is below now - cleanupRetentionDays (the retention main
\* configured) and keeps every other entry, unchanged and in order.
IsSuccessfulCycle ==
    cleanupState = "Deleting" /\ cleanupState' = "Waiting" /\ lastCycle' = "ok"
Entries(seq) == {seq[i] : i \in DOMAIN seq}
IsFailedCycle ==
    /\ cleanupState = "Deleting" /\ cleanupState' # "Deleting"
    /\ lastCycle' = "failed" /\ hookIdx' = hookIdx
C8_FailedCycleDoesNotStopScheduler ==
    /\ []((cleanupState = "Waiting" /\ lastCycle = "failed" /\ Alive /\ TimerDue)
            => ENABLED TimerFire)
    /\ [][IsFailedCycle =>
            /\ cleanupState' = "Waiting"
            /\ store' = store
            /\ pc' = pc /\ exitCode' = exitCode /\ db' = db
            /\ lastFire' = lastFire
            /\ intervalHours' = intervalHours /\ retentionDays' = retentionDays]_vars

\* C8 witness: after a failed cycle the timer fired again and the next cycle
\* is under way.
C8_Witness ==
    cleanupState = "Deleting" /\ lastCycle = "failed" /\ db = "open"

\* C9: the hook stops the scheduler before it closes the connection: once
\* stop has returned, and whenever the connection is closed, the scheduler is
\* Stopped, and no entry is deleted over a connection that is not open.
C9_StoppedBeforeClose ==
    /\ []((hook \in {"running", "done"} /\ hookIdx > 1) => cleanupState = "Stopped")
    /\ [](db = "closed" => cleanupState = "Stopped")
    /\ [][(Len(store') < Len(store) \/ lastCycle' # lastCycle) => db = "open"]_vars

\* C9 witness: the shutdown came while a cycle was in progress; stop has
\* returned and the connection is still to be closed.
C9_Witness ==
    /\ hook = "running" /\ hookIdx = 2 /\ db = "open"
    /\ cleanupState = "Stopped" /\ lastFire = now /\ lastCycle = "none" /\ now > 0

\* C10: whatever the interleaving of inserts and cleanup cycles, every insert
\* that reported success and is not older than the retention horizon
\* now - cleanupRetentionDays is in the store, with the timestamp it was given.
C10_FreshInsertsSurviveCleanup ==
    \A r \in savedOk :
        r.ts >= now - cleanupRetentionDays =>
            \E i \in DOMAIN store : store[i].msg = r.msg /\ store[i].ts = r.ts

\* C10 witness: an insert made while a cycle was in progress is in the store
\* after that cycle deleted an older entry.
C10_Witness ==
    /\ lastCycle = "ok"
    /\ \E r \in savedOk : r.during = "Deleting" /\ r.msg \in StoredMsgs
    /\ \E r \in savedOk : r.msg \notin StoredMsgs

\* C11: analyzeOrder maps the total risk score to its outcome by fixed bands:
\* 90 or more is a CRITICAL alert, 70 to below 90 a HIGH alert, 50 to below 70
\* a MEDIUM alert, below 50 no alert (null); null is no error: the record goes
\* on to the bad-query step, no alert is counted.
C11_ScoreBands ==
    /\ [](riskScore # NoScore =>
            /\ riskScore >= CriticalScore => alert = "CRITICAL"
            /\ (riskScore >= HighScore /\ riskScore < CriticalScore) => alert = "HIGH"
            /\ (riskScore >= MediumScore /\ riskScore < HighScore) => alert = "MEDIUM"
            /\ riskScore < MediumScore => alert = "null")
    /\ [][(pc = "analyze" /\ alert' = "null") =>
            /\ pc' = "badQuery"
            /\ fraudAlertCount' = fraudAlertCount
            /\ riskScore' < MediumScore]_vars
    /\ [][(pc = "analyze" /\ alert' \in Severities) =>
            fraudAlertCount' = fraudAlertCount + 1]_vars

\* C11 witness: an order scored at the lower end of the CRITICAL band was
\* analyzed after an earlier record that raised no alert.
C11_Witness ==
    /\ pc = "badQuery" /\ riskScore = CriticalScore /\ alert = "CRITICAL"
    /\ acc >= 1 /\ fraudAlertCount = 1

\* the store holds an entry of an earlier message with the order id of the
\* current record
SeenBefore == \E i \in DOMAIN store : store[i].orderId = orders.orderId

\* C12: a message whose orderId was seen before is neither skipped, merged nor
\* rejected: it reaches saveOrder like any other, and a successful save adds
\* one more entry for it and leaves the earlier entries as they were.
C12_DuplicatesAreNotDeduplicated ==
    /\ [](pc \in {"analyze", "badQuery"} => saved # "none")
    /\ [][(pc = "mutate" /\ pc' # pc) => pc' = "save"]_vars
    /\ [][(pc = "save" /\ pc' # pc /\ SeenBefore) =>
            /\ pc' = "analyze"
            /\ saved' # "none"
            /\ saved' = "true" =>
                /\ Len(store') = Len(store) + 1
                /\ SubSeq(store', 1, Len(store)) = store
                /\ store'[Len(store')].orderId = orders.orderId
                /\ store'[Len(store')].msg = acc + 1]_vars

\* C12 witness: the store holds two entries with the same orderId, made for
\* two different messages.
C12_Witness ==
    /\ Len(store) >= 2
    /\ store[1].orderId = store[2].orderId
    /\ store[1].msg # store[2].msg

\* C13: a lookup of an absent flag or at an unreachable flag service counts as
\* 0: a record none of whose lookups resolved to a value above 0 (absent,
\* unreachable, or resolved to 0) is not delayed, not mutated, not analyzed and
\* not followed by a bad query, yet saveOrder is called for it and it is
\* counted.
C13_FlagsOffPlainProcessing ==
    /\ [](~readOn =>
            /\ pc # "sleeping"
            /\ ~orders.mutated
            /\ alert = "none" /\ riskScore = NoScore
            /\ executed = "none")
    /\ [][(pc = "badQuery" /\ pc' # pc /\ ~readOn') =>
            /\ saved # "none"
            /\ saved = "true" =>
                /\ store[Len(store)].msg = acc + 1
                /\ ~store[Len(store)].mutated
            /\ acc' = acc + 1
            /\ pc' = "poll" => totalCount' = acc + 1
            /\ fraudAlertCount' = fraudAlertCount]_vars

\* C13 witness: the second record of the run has been processed with every
\* flag off, and saved.
C13_Witness ==
    /\ pc \in {"poll", "flagQueue"} /\ acc = 2 /\ ~readOn
    /\ badQueryPercentage = 0 /\ executed = "none"
    /\ \E i \in DOMAIN store : store[i].msg = 2 /\ ~store[i].mutated

\* C14: maybeExecuteBadQuery is called only with a percentage above 0, and
\* whether it returns true, returns false or throws, the store, the reported
\* inserts and the alert count are as before, the record is counted and the
\* main thread goes on with the next record or the next poll.
C14_BadQueryIsOffTheCriticalPath ==
    /\ [](executed # "none" => badQueryPercentage > 0)
    /\ [][(pc = "badQuery" /\ pc' # pc) =>
            /\ executed' \in BadQueryOutcomes \cup {"none"}
            /\ store' = store
            /\ savedOk' = savedOk
            /\ fraudAlertCount' = fraudAlertCount
            /\ acc' = acc + 1
            /\ batch' = batch - 1
            /\ pc' = IF batch > 1 THEN "flagQueue" ELSE "poll"
            /\ pc' = "poll" => totalCount' = acc + 1]_vars

\* C14 witness: the bad query threw for a record that was saved; the record
\* is counted and the next record of the batch is up.
C14_Witness ==
    /\ pc = "flagQueue" /\ executed = "throw" /\ batch >= 1
    /\ acc >= 1 /\ acc \in StoredMsgs

\* C15: with a mutation percentage of 0 the order that is persisted and
\* analyzed is the decoded order: the mutate step leaves it as it is, and the
\* entry saved for it is that of the unmutated order.
C15_MutationAtZeroIsIdentity ==
    /\ \A o \in {parseFrom(p) : p \in Payloads \ {Garbage}}, roll \in 0..99 :
        mutateOrder(o, 0, roll) = o
    /\ [][(pc = "mutate" /\ mutationPercentage' = 0) => orders' = orders]_vars
    /\ []((mutationPercentage = 0 /\ pc \in {"save", "analyze", "badQuery"}) =>
            orders \in {parseFrom(p) : p \in Payloads \ {Garbage}})
    /\ [][(pc \in {"save", "analyze"} /\ mutationPercentage = 0) => orders' = orders]_vars
    /\ []((mutationPercentage = 0 /\ saved = "true") =>
            /\ store[Len(store)].orderId = orders.orderId
            /\ ~store[Len(store)].mutated)

\* C15 witness: the mutation flag resolved to 0 with fraud detection on; the
\* order has been saved and analyzed.
C15_Witness ==
    /\ pc = "badQuery" /\ mutationPercentage = 0
    /\ saved = "true" /\ alert \in Severities

\* the Session stored, and the item of a Session with id and timestamp t
StoredSession == parse(storage)
NewSession(id, t) == stringify([userId |-> id, currencyCode |-> "USD", timestamp |-> t])

\* C16 as stated: the session expires after 30 minutes of inactivity: a call
\* made less than 30 minutes after the previous call on the same storage
\* returns the same session id, a call made 30 minutes or more after it
\* creates and stores a new session (calls answered from AsyncStorage, the
\* previous one having returned the stored session).
C16_ExpiresAfterInactivity ==
    [][(/\ gsPc' = "idle" /\ gsOutcome' # "fallback"
        /\ <<returned, lastCall>>' # <<returned, lastCall>>
        /\ lastCall # NoCall
        /\ storage # NoItem /\ StoredSession.userId = returned) =>
            IF gsNow' - lastCall < SESSION_TIMEOUT
            THEN returned' = returned
            ELSE returned' # returned /\ storage' = NewSession(returned', gsNow')]_vars

\* C17 as stated: two evaluations of getSplunkGlobalAttributes under an
\* unchanged stored session produce the same user id and role.
C17_SameUserUnderSameSession ==
    [][(attrs # NoAttrs /\ attrsStored # NoItem /\ attrsStored' = attrsStored) =>
            (attrs'.id = attrs.id /\ attrs'.role = attrs.role)]_vars

\* C17 amended: the attributes are those of the user generated from the
\* session id getSessionId returned; an evaluation answered from AsyncStorage
\* uses the stored session id as long as the stored session is younger than 30
\* minutes and creates a session only when none is stored or the stored one
\* has expired, so two evaluations that read the same stored session yield
\* the same user id and role; only a failure of AsyncStorage yields a
\* fallback id, which is not stored.
C17_UserFollowsStoredSession ==
    /\ [](attrs # NoAttrs => attrs = GlobalAttributes(attrsSession))
    /\ [][(attrsSession' # attrsSession /\ gsOutcome' = "stored") =>
            /\ storage' = storage
            /\ attrsSession' = StoredSession.userId
            /\ gsNow' - StoredSession.timestamp < SESSION_TIMEOUT]_vars
    /\ [][(attrsSession' # attrsSession /\ gsOutcome' = "created") =>
            /\ storage = NoItem \/ gsNow' - StoredSession.timestamp >= SESSION_TIMEOUT
            /\ storage' = NewSession(attrsSession', gsNow')]_vars
    /\ [][(attrsSession' # attrsSession /\ gsOutcome' = "fallback") =>
            storage' = storage]_vars
    /\ [][(/\ attrs # NoAttrs /\ attrsStored # NoItem /\ attrsStored' = attrsStored
           /\ attrsSession = parse(attrsStored).userId
           /\ attrsSession' = parse(attrsStored).userId) =>
            attrs' = attrs]_vars

\* C17 witness: getSplunkGlobalAttributes was answered from a session stored
\* by an earlier call, after a fallback id had been used.
C17_Witness ==
    /\ attrs # NoAttrs /\ gsOutcome = "stored" /\ gsPc = "idle"
    /\ storage # NoItem /\ attrsSession = StoredSession.userId
    /\ attrsStored = storage
    /\ lastCall > StoredSession.timestamp
    /\ generated = 2

\* C18 as stated: the call of getSessionId that follows a successful
\* resetSession does not return the previous session id: it creates a new
\* session, stores it with the current timestamp and returns its id.
C18_NewSessionAfterReset ==
    [][(afterReset /\ ~afterReset') =>
            /\ returned' # removedId
            /\ gsOutcome' = "created"
            /\ storage' = NewSession(returned', gsNow')]_vars

\* C18 amended: the call of getSessionId that follows a successful
\* resetSession returns neither the id of the removed session nor the id
\* returned before; when AsyncStorage answers, it creates a session, stores it
\* with the time the call was made at and returns its id; when AsyncStorage
\* fails, it returns a fallback id and stores nothing.
C18_FreshIdAfterReset ==
    [][(afterReset /\ ~afterReset') =>
            /\ returned' # removedId
            /\ returned' # returned
            /\ gsOutcome' \in {"created", "fallback"}
            /\ gsOutcome' = "created" =>
                /\ storage' = NewSession(returned', gsNow')
                /\ gsNow' = lastCall' /\ gsNow' <= clock'
            /\ gsOutcome' = "fallback" => storage' = storage]_vars

\* C18 witness: the first session was removed by resetSession and the next
\* call created and stored the second one.
C18_Witness ==
    /\ generated = 2 /\ removedId # NoId /\ ~afterReset
    /\ gsOutcome = "created" /\ gsPc = "idle"
    /\ storage = NewSession(returned, lastCall)
    /\ returned # removedId

\* C19: the generated user is an Admin with an id among 34, 37 and 41, a
\* Member with an id from 1000 to 6000, or the Guest with id 99999; it is an
\* Admin when the first seeded draw is below 0.08, a Member when the draw is
\* at least 0.08 and below 0.50, a Guest otherwise.
C19_UserRanges ==
    attrs # NoAttrs =>
        LET draw == random(simpleHash(attrsSession))
        IN  \/ /\ attrs.role = "Admin"
               /\ attrs.id \in {adminIDs[i] : i \in DOMAIN adminIDs}
               /\ Below(draw, AdminPercent)
            \/ /\ attrs.role = "Member"
               /\ attrs.id >= MemberMinId /\ attrs.id <= MemberMaxId
               /\ ~Below(draw, AdminPercent) /\ Below(draw, MemberPercent)
            \/ /\ attrs.role = "Guest"
               /\ attrs.id = GuestId
               /\ ~Below(draw, MemberPercent)

\* C19 witness: a Member with the highest id was generated.
C19_Witness ==
    attrs.role = "Member" /\ attrs.id = MemberMaxId

\* C20: whenever executeWithWorkflowSpan created a span, the span is ended
\* exactly once, whether fn resolved or rejected; when fn rejected, the
\* exception was recorded and the error status set on the span before it was
\* ended, and the caller received the error fn rejected with.
C20_SpanEndedOnceErrorRecorded ==
    \A c \in Calls :
        LET w == workflows[c]
        IN  (w.pc = "done" /\ w.span # "null") =>
                /\ Cardinality({i \in DOMAIN w.log : w.log[i] = "end"}) = 1
                /\ w.log[Len(w.log)] = "end"
                /\ w.thrown # NoError =>
                       /\ w.log = <<"recordException", "setStatus", "end">>
                       /\ w.outcome = "threw"
                       /\ w.error = w.thrown

\* C21: the synthetic CartPageError span is created at most once per browser
\* session, and only when the cart has at least one item and a tracer is
\* available; visiting or re-rendering the cart page again does not create
\* it a second time.
C21_CartErrorOncePerSession ==
    /\ Len(cartSpans) <= 1
    /\ \A i \in DOMAIN cartSpans : cartSpans[i].items > 0 /\ cartSpans[i].tracer

\* C22: when the iOS build (xcodebuild) or the Android build (gradlew) fails
\* after the version files were modified, the original files are restored
\* from their backups before the script exits with a non-zero status.
C22_BuildFailureRestoresFiles ==
    (bsPc = "exited" /\ failed \in {"xcodebuild", "gradlew"}) =>
        /\ bsExit # 0
        /\ \A f \in ConfigFiles : files[f] \in {"absent", "original"}

\* C23: app start-up never blocks on Splunk RUM: whatever happens during the
\* initialization, the promise of initializeSplunkRum is not rejected, the
\* loaded flag of useSplunkRum eventually becomes true, and the root layout
\* renders the app once the fonts and the tracer are loaded too.
C23_RumNeverBlocksStartup ==
    /\ [](rumOutcome # "rejected")
    /\ <>rumLoaded
    /\ (fontsLoaded /\ tracerLoaded) ~> rendered
    /\ [](rendered <=> (fontsLoaded /\ tracerLoaded /\ rumLoaded))

C23_Witness ==
    /\ rumLoaded /\ rendered
    /\ rum = "null"
    /\ rumCause = "init threw"

\* C24: the running total grows by exactly one for each polled record,
\* whatever the outcome of persistence, analysis or the bad query: whenever
\* the polled batches are completed totalCount equals the number of records
\* polled so far, inside a batch the fold's accumulator has counted the
\* records folded, and totalCount never decreases.
C24_TotalCountsEveryRecord ==
    /\ [](pc = "poll" => totalCount = polled)
    /\ [](pc \in InRecord => acc + batch = polled /\ totalCount <= acc)
    /\ [][/\ totalCount' >= totalCount
          /\ (pc = "badQuery" /\ pc' \in {"poll", "flagQueue"}) => acc' = acc + 1]_vars

C24_Witness ==
    /\ pc = "poll"
    /\ totalCount = 2
    /\ executed = "throw"
    /\ store = <<>>

\* the value getFeatureFlagValue(ff) returns at this moment
CurrentValue(ff) == getFeatureFlagValue(flagdValues[ff])

\* C25: feature flags are evaluated anew for every message and never cached:
\* for each message the sleep, the mutation percentage, the analysis and the
\* bad query follow the value the flag has when the message reads it, so a
\* change between two messages takes effect on the very next message.
C25_FlagsReadForEveryMessage ==
    [][/\ (pc = "flagQueue" /\ pc' # pc) =>
             (pc' = "sleeping" <=> CurrentValue("kafkaQueueProblems") > 0)
       /\ (pc = "mutate" /\ pc' # pc) =>
             /\ mutationPercentage' = IF CurrentValue("fraudDetectionEnabled") > 0
                                       THEN CurrentValue("mutateFraudOrders")
                                       ELSE NotRead
             /\ orders'.mutated => /\ CurrentValue("fraudDetectionEnabled") > 0
                                   /\ CurrentValue("mutateFraudOrders") > 0
       /\ (pc = "analyze" /\ pc' # pc) =>
             (alert' # "none" <=> CurrentValue("fraudDetectionEnabled") > 0)
       /\ (pc = "badQuery" /\ pc' # pc) =>
             /\ badQueryPercentage' = CurrentValue("executeBadQueries")
             /\ executed' # "none" <=> CurrentValue("executeBadQueries") > 0]_vars

\* the first message was mutated and stored, fraudDetectionEnabled was then
\* set to 0 and the second message found it off
C25_Witness ==
    /\ flagChanges = 1
    /\ CurrentValue("fraudDetectionEnabled") = 0
    /\ acc = 1 /\ pc = "save"
    /\ mutationPercentage = NotRead
    /\ Len(store) = 1 /\ store[1].mutated

\* C26: within the processing of one message the two fraud-detection checks
\* agree: an order that was mutated and persisted has been analyzed when the
\* message reaches the bad query, even when a flag changes meanwhile.
C26_MutatedImpliesAnalyzed ==
    (pc = "badQuery" /\ orders.mutated /\ saved = "true") => alert # "none"

====
